---- MODULE Spec2Model ----
(***************************************************************************)
(* Model of server/src/main.cpp: a startup loop that prints 0..4 with a    *)
(* one-second delay after each line, followed by an endless loop that      *)
(* extracts one character from standard input and echoes it.               *)
(*                                                                         *)
(* Two executions of the program (Runs) are modelled side by side.  They   *)
(* are started with different command lines and read the same standard     *)
(* input, each at its own pace; this is what lets a statement about two    *)
(* executions be written as a state predicate.                             *)
(***************************************************************************)
EXTENDS Integers, Sequences, FiniteSets, TLC

(* ------------------------------ bounds -------------------------------- *)

\* Longest standard input typed before the model stops adding characters.
MaxLen == 3

\* Number of failed extractions a run performs before the model stops it
\* (the program itself would go on for ever).
MaxSpin == 2

(* ------------------------- program constants -------------------------- *)

\* for ( int i = 0 ; i < 5; ++i )
NumIter == 5

\* sleep(1)
SleepSeconds == 1

(* --------------------------- environment ------------------------------ *)

Runs == {1, 2}

\* Characters the environment can type on standard input.
Alphabet == {"x", "y", " ", "\n"}

\* Command lines (argv) the two executions can be started with.
ArgVectors == {<<"main">>, <<"main", "p">>}

\* Value of a variable of automatic storage that was never assigned.
Indet == "indeterminate"

\* What an indeterminate char can turn out to be when it is printed.
Garbage == {"x", "?"}

VARIABLES
  input,    \* the characters supplied on standard input so far
  closed,   \* TRUE once standard input has reached end-of-stream
  args,     \* args[r]: argv of run r (argc is its length)
  pc,       \* pc[r]: position of run r in main
  i,        \* i[r]: the startup loop's index
  delay,    \* delay[r]: seconds of the delay in progress, 0 when none
  elapsed,  \* elapsed[r]: seconds spent in completed delays
  a,        \* a[r]: the variable `char a`
  pos,      \* pos[r]: number of characters of input run r has consumed
  failed,   \* failed[r]: std::cin has failbit set in run r
  fails,    \* fails[r]: number of extractions that failed in run r
  out       \* out[r]: the lines written to standard output by run r

vars == <<input, closed, args, pc, i, delay, elapsed, a, pos, failed, fails, out>>

(* --------------------------- pure helpers ----------------------------- *)

\* std::isspace in the classic locale: what operator>> skips under skipws.
WhiteSpace == {" ", "\t", "\n", "\r"}

IsSpace(c) == c \in WhiteSpace

\* One decimal digit as text.
Digit(d) ==
  CASE d = 0 -> "0" [] d = 1 -> "1" [] d = 2 -> "2" [] d = 3 -> "3"
    [] d = 4 -> "4" [] d = 5 -> "5" [] d = 6 -> "6" [] d = 7 -> "7"
    [] d = 8 -> "8" [] d = 9 -> "9"

RECURSIVE Decimal(_)
Decimal(n) == IF n < 10 THEN Digit(n) ELSE Decimal(n \div 10) \o Digit(n % 10)

\* std::cout << i << std::endl for a non-negative int.
IndexLine(n) == Decimal(n)

\* std::cout << "a = " << a << std::endl  (EchoLineNoSpaces: another prefix)
EchoLineNoSpaces(c) == "a=" \o c
EchoLine(c) == "a = " \o c

\* i < 5  (ForCondShort: the bound off by one)
ForCondShort(n) == n < NumIter - 1
ForCond(n) == n < NumIter

\* while (true)  (WhileCondStream: while (std::cin); WhileCondQuit: a quit
\* character ends the loop)
WhileCondStream(r) == ~failed[r]
WhileCondQuit(r) == a[r] # "y"
WhileCond(r) == TRUE

\* The sentry of operator>>(char&): with skipws set it discards leading
\* whitespace.  SkipWs(s, p) is the number of characters of s consumed once
\* the whitespace that follows the first p characters has been discarded.
RECURSIVE SkipWsRec(_, _)
SkipWsRec(s, p) ==
  IF p >= Len(s) THEN Len(s)
  ELSE IF IsSpace(s[p + 1]) THEN SkipWsRec(s, p + 1)
  ELSE p

\* NoSkipWs: the extraction with skipws cleared.
NoSkipWs(s, p) == p
SkipWs(s, p) == SkipWsRec(s, p)

\* The end of the token that starts after the first p characters of s.
RECURSIVE TokenEnd(_, _)
TokenEnd(s, p) ==
  IF p >= Len(s) THEN Len(s)
  ELSE IF IsSpace(s[p + 1]) THEN p
  ELSE TokenEnd(s, p + 1)

\* After the sentry, operator>>(char&) extracts exactly one character:
\* Consume(s, p) is the number of characters consumed after the extraction
\* (ConsumeToken: a read that would take the whole token, as >> into a
\* std::string does).
ConsumeToken(s, p) == TokenEnd(s, p)
Consume(s, p) == p + 1

\* What a failed extraction leaves in the target: it is not written
\* (StoredOnFailureCleared: the target zeroed, as numeric extraction does).
StoredOnFailureCleared(old) == "0"
StoredOnFailure(old) == old

\* Where control goes after `std::cin >> a`: the result is discarded
\* (AfterReadChecked: a loop that leaves on a failed read).
AfterReadChecked(ok) == IF ok THEN "echo" ELSE "done"
AfterRead(ok) == "echo"

(* ------------------------------ Init ---------------------------------- *)

\* The state on entry to main: nothing typed, nothing printed, the loop index
\* initialised (int i = 0), std::cin good.  The two runs get different argv.
Init ==
  /\ input = <<>>
  /\ closed = FALSE
  /\ args \in {f \in [Runs -> ArgVectors] : f[1] # f[2]}
  /\ pc = [r \in Runs |-> "for"]
  /\ i = [r \in Runs |-> 0]
  /\ delay = [r \in Runs |-> 0]
  /\ elapsed = [r \in Runs |-> 0]
  /\ a = [r \in Runs |-> Indet]
  /\ pos = [r \in Runs |-> 0]
  /\ failed = [r \in Runs |-> FALSE]
  /\ fails = [r \in Runs |-> 0]
  /\ out = [r \in Runs |-> <<>>]

(* ---------------------------- environment ----------------------------- *)

\* The user types one more character on standard input.
Type(c) ==
  /\ ~closed
  /\ Len(input) < MaxLen
  /\ input' = Append(input, c)
  /\ UNCHANGED <<closed, args, pc, i, delay, elapsed, a, pos, failed, fails, out>>

\* Standard input reaches end-of-stream.
CloseStdin ==
  /\ ~closed
  /\ closed' = TRUE
  /\ UNCHANGED <<input, args, pc, i, delay, elapsed, a, pos, failed, fails, out>>

(* ------------------------------ main ---------------------------------- *)

\* The test of the startup loop; when it fails control falls through the
\* declaration `char a;`, which assigns nothing, to the echo loop.
ForTest(r) ==
  /\ pc[r] = "for"
  /\ pc' = [pc EXCEPT ![r] = IF ForCond(i[r]) THEN "print" ELSE "while"]
  /\ UNCHANGED <<input, closed, args, i, delay, elapsed, a, pos, failed, fails, out>>

\* std::cout << i << std::endl;
PrintIndex(r) ==
  /\ pc[r] = "print"
  /\ out' = [out EXCEPT ![r] = Append(@, IndexLine(i[r]))]
  /\ pc' = [pc EXCEPT ![r] = "sleep"]
  /\ UNCHANGED <<input, closed, args, i, delay, elapsed, a, pos, failed, fails>>

\* sleep(seconds): the calling thread enters sleep_for
\* (sleepSkipped: a call that returns without waiting).
sleepSkipped(r, seconds) ==
  /\ pc' = [pc EXCEPT ![r] = "incr"]
  /\ UNCHANGED delay

sleep(r, seconds) ==
  /\ delay' = [delay EXCEPT ![r] = seconds]
  /\ pc' = [pc EXCEPT ![r] = "sleeping"]

SleepCall(r) ==
  /\ pc[r] = "sleep"
  /\ sleep(r, SleepSeconds)
  /\ UNCHANGED <<input, closed, args, i, elapsed, a, pos, failed, fails, out>>

\* sleep_for returns once the whole duration has passed.
SleepReturn(r) ==
  /\ pc[r] = "sleeping"
  /\ elapsed' = [elapsed EXCEPT ![r] = @ + delay[r]]
  /\ delay' = [delay EXCEPT ![r] = 0]
  /\ pc' = [pc EXCEPT ![r] = "incr"]
  /\ UNCHANGED <<input, closed, args, i, a, pos, failed, fails, out>>

\* ++i
ForIncr(r) ==
  /\ pc[r] = "incr"
  /\ i' = [i EXCEPT ![r] = @ + 1]
  /\ pc' = [pc EXCEPT ![r] = "for"]
  /\ UNCHANGED <<input, closed, args, delay, elapsed, a, pos, failed, fails, out>>

\* while (true): when the condition is false control reaches `return 0`.
WhileTest(r) ==
  /\ pc[r] = "while"
  /\ pc' = [pc EXCEPT ![r] = IF WhileCond(r) THEN "read" ELSE "done"]
  /\ UNCHANGED <<input, closed, args, i, delay, elapsed, a, pos, failed, fails, out>>

\* std::cin >> a;
\*  - a stream that is not good() fails at once and extracts nothing;
\*  - otherwise whitespace is skipped; at end-of-stream eofbit and failbit are
\*    set and a is left alone; with no character available and the stream
\*    open the call blocks (the action is not enabled);
\*  - otherwise one character is extracted into a.
Read(r) ==
  /\ pc[r] = "read"
  /\ LET p == SkipWs(input, pos[r]) IN
       IF failed[r] \/ p >= Len(input)
       THEN /\ failed[r] \/ closed
            /\ fails[r] < MaxSpin
            /\ failed' = [failed EXCEPT ![r] = TRUE]
            /\ fails' = [fails EXCEPT ![r] = @ + 1]
            /\ pos' = [pos EXCEPT ![r] = IF failed[r] THEN @ ELSE p]
            /\ a' = [a EXCEPT ![r] = StoredOnFailure(@)]
            /\ pc' = [pc EXCEPT ![r] = AfterRead(FALSE)]
       ELSE /\ a' = [a EXCEPT ![r] = input[p + 1]]
            /\ pos' = [pos EXCEPT ![r] = Consume(input, p)]
            /\ pc' = [pc EXCEPT ![r] = AfterRead(TRUE)]
            /\ UNCHANGED <<failed, fails>>
  /\ UNCHANGED <<input, closed, args, i, delay, elapsed, out>>

\* std::cout << "a = " << a << std::endl;
\* Reading a while it is still indeterminate is undefined: the character
\* printed is then any value the object may happen to hold.
Echo(r) ==
  /\ pc[r] = "echo"
  /\ \E c \in (IF a[r] = Indet THEN Garbage ELSE {a[r]}) :
       out' = [out EXCEPT ![r] = Append(@, EchoLine(c))]
  /\ pc' = [pc EXCEPT ![r] = "while"]
  /\ UNCHANGED <<input, closed, args, i, delay, elapsed, a, pos, failed, fails>>

Step(r) ==
  \/ ForTest(r)
  \/ PrintIndex(r)
  \/ SleepCall(r)
  \/ SleepReturn(r)
  \/ ForIncr(r)
  \/ WhileTest(r)
  \/ Read(r)
  \/ Echo(r)

Next ==
  \/ \E c \in Alphabet : Type(c)
  \/ CloseStdin
  \/ \E r \in Runs : Step(r)

Spec == Init /\ [][Next]_vars

(* ---------------------- vocabulary of the claims ---------------------- *)

\* The five startup lines, written out.
StartupLines == <<"0", "1", "2", "3", "4">>

\* The input with every whitespace character removed.
StripWs(s) == SelectSeq(s, LAMBDA c : ~IsSpace(c))

\* The part of standard input run r has consumed.
Consumed(r) == SubSeq(input, 1, pos[r])

\* The lines run r wrote after the five startup lines.
EchoLines(r) == SubSeq(out[r], 6, Len(out[r]))

\* The echo lines that echoing the characters cs, one per line, produces.
LinesOf(cs) == [k \in 1..Len(cs) |-> "a = " \o cs[k]]

\* Positions at which a token (a maximal run of non-whitespace) starts.
TokenStarts(s) ==
  {j \in 1..Len(s) : ~IsSpace(s[j]) /\ (j = 1 \/ IsSpace(s[j - 1]))}

\* The first characters of the tokens of s, in order.
RECURSIVE FirstCharsFrom(_, _)
FirstCharsFrom(s, j) ==
  IF j > Len(s) THEN <<>>
  ELSE IF j \in TokenStarts(s) THEN <<s[j]>> \o FirstCharsFrom(s, j + 1)
  ELSE FirstCharsFrom(s, j + 1)

FirstChars(s) == FirstCharsFrom(s, 1)

\* Number of non-whitespace characters among the first j characters of s.
NonWsUpTo(s, j) == Len(StripWs(SubSeq(s, 1, j)))

IsPrefix(s, t) == Len(s) <= Len(t) /\ SubSeq(t, 1, Len(s)) = s

\* Run r is in the echo loop.
InEchoLoop(r) == pc[r] \in {"while", "read", "echo"}

\* Run r is between two iterations of the echo loop (every read so far has
\* been echoed) and no extraction has failed.
Settled(r) == pc[r] \in {"while", "read"} /\ ~failed[r]

\* Run r is blocked in the extraction: nothing but whitespace is left on an
\* open standard input.
BlockedInRead(r) ==
  /\ pc[r] = "read"
  /\ ~failed[r]
  /\ ~closed
  /\ StripWs(SubSeq(input, pos[r] + 1, Len(input))) = <<>>

\* The variables of run r other than pc, delay and elapsed are left alone.
RunDataUnchanged(r) ==
  /\ i'[r] = i[r]
  /\ a'[r] = a[r]
  /\ pos'[r] = pos[r]
  /\ failed'[r] = failed[r]
  /\ fails'[r] = fails[r]
  /\ out'[r] = out[r]

(* ------------------------------ claims -------------------------------- *)

\* C1: in every execution the first five lines written to standard output are
\* 0, 1, 2, 3, 4 in that order: whatever has been written so far agrees with
\* them line by line, and once the echo loop has been entered (or anything
\* has been read from standard input) all five are there, so no echo line
\* comes before the line 4.
C1_StartupLinesFirst ==
  \A r \in Runs :
    /\ \A k \in 1..Len(out[r]) : k <= 5 => out[r][k] = StartupLines[k]
    /\ (pc[r] \in {"while", "read", "echo", "done"} \/ pos[r] > 0 \/ fails[r] > 0)
         => Len(out[r]) >= 5

\* C1 witness: a run has written an echo line after the startup lines.
C1_Witness ==
  \E r \in Runs : Len(out[r]) > 5 /\ pos[r] > 0

\* C4: as long as standard input has not been closed, a run is in the startup
\* loop, in a delay, at a read or in the echo loop, and never at `return 0`.
C4_NoExitWhileOpen ==
  ~closed =>
    \A r \in Runs :
      pc[r] \in {"for", "print", "sleep", "sleeping", "incr", "while", "read", "echo"}

\* C4 witness: with standard input open, a run that has read and echoed a
\* character is blocked in the next read.
C4_Witness ==
  \E r \in Runs : BlockedInRead(r) /\ pos[r] > 0 /\ Len(out[r]) > 5

\* C5: `return 0` is never reached, whether or not standard input is closed.
C5_ReturnUnreachable ==
  \A r \in Runs : pc[r] # "done"

\* C5 witness: standard input is closed and a run has gone round the echo
\* loop twice on a failed stream, and is back at the read.
C5_Witness ==
  \E r \in Runs : closed /\ failed[r] /\ fails[r] >= 2 /\ pc[r] = "read"

\* C7: the startup loop makes exactly five iterations, each printing its index
\* and then one delay of one second; while a delay is in progress the run does
\* nothing else; the first read of standard input comes after the fifth delay.
C7_DelayState ==
  \A r \in Runs :
    /\ elapsed[r] <= 5
    /\ pc[r] = "sleeping" =>
         /\ delay[r] = 1
         /\ i[r] < 5
         /\ elapsed[r] = i[r]
         /\ out[r] = SubSeq(StartupLines, 1, i[r] + 1)
    /\ pc[r] \in {"while", "read", "echo", "done"} => i[r] = 5 /\ elapsed[r] = 5
    /\ (pos[r] > 0 \/ fails[r] > 0 \/ a[r] # Indet) => elapsed[r] = 5

C7_DelayStep ==
  \A r \in Runs :
    pc[r] = "sleeping" =>
      /\ RunDataUnchanged(r)
      /\ \/ pc'[r] = "sleeping" /\ delay'[r] = delay[r] /\ elapsed'[r] = elapsed[r]
         \/ pc'[r] = "incr" /\ delay'[r] = 0 /\ elapsed'[r] = elapsed[r] + 1

C7_FiveBlockingDelays == []C7_DelayState /\ [][C7_DelayStep]_vars

\* C7 witness: one run is in its fifth delay (after printing 4) while the
\* other, its five delays over, has read from standard input.
C7_Witness ==
  \E r, q \in Runs :
    /\ pc[r] = "sleeping" /\ i[r] = 4 /\ Len(out[r]) = 5
    /\ pos[q] > 0 /\ elapsed[q] = 5

\* C8: a holds the last character read.  Once a run has read a character
\* successfully, a is the character of the most recent successful read
\* throughout the echo loop, the echo step prints exactly that character, and
\* only the read statement ever changes a.
C8_HoldsLastRead ==
  \A r \in Runs :
    (InEchoLoop(r) /\ StripWs(Consumed(r)) # <<>>) =>
      /\ pos[r] <= Len(input)
      /\ a[r] = StripWs(Consumed(r))[Len(StripWs(Consumed(r)))]

C8_EchoPrintsLastRead ==
  \A r \in Runs :
    /\ (pc[r] = "echo" /\ pc'[r] # "echo" /\ StripWs(Consumed(r)) # <<>>) =>
         out'[r] = Append(out[r], "a = " \o StripWs(Consumed(r))[Len(StripWs(Consumed(r)))])
    /\ a'[r] # a[r] => pc[r] = "read"

C8_LastCharacterRead == []C8_HoldsLastRead /\ [][C8_EchoPrintsLastRead]_vars

\* C8 witness: after a successful read, a later read has failed and the echo
\* that followed it printed the character of the last successful read again.
C8_Witness ==
  \E r \in Runs :
    /\ pc[r] = "while"
    /\ fails[r] >= 1
    /\ StripWs(Consumed(r)) # <<>>
    /\ Len(EchoLines(r)) = Len(StripWs(Consumed(r))) + fails[r]
    /\ out[r][Len(out[r])] = "a = " \o a[r]

\* C9: stream failure is not checked.  A read attempt, failed or not, is
\* followed by the echo step, which writes one line and returns to the loop
\* test and from there to the next read; every attempt has its echo line; the
\* only lines ever written after startup are echo lines (no failure report)
\* and the run has no position other than those of the two loops.
C9_EveryAttemptEchoed ==
  \A r \in Runs :
    /\ pc[r] \in {"for", "print", "sleep", "sleeping", "incr", "while", "read", "echo"}
    /\ InEchoLoop(r) =>
         Len(EchoLines(r)) + (IF pc[r] = "echo" THEN 1 ELSE 0)
           = Len(StripWs(Consumed(r))) + fails[r]
    /\ \A k \in 1..Len(EchoLines(r)) :
         \E c \in Alphabet \cup Garbage : EchoLines(r)[k] = "a = " \o c

C9_LoopStep ==
  \A r \in Runs :
    /\ (pc[r] = "read" /\ pc'[r] # "read") => pc'[r] = "echo"
    /\ (pc[r] = "echo" /\ pc'[r] # "echo") =>
         pc'[r] = "while" /\ Len(out'[r]) = Len(out[r]) + 1
    /\ (pc[r] = "while" /\ pc'[r] # "while") => pc'[r] = "read"

C9_FailureNotChecked == []C9_EveryAttemptEchoed /\ [][C9_LoopStep]_vars

\* C9 witness: a read attempt has failed, its echo line has been written, and
\* the run is at the next read attempt.
C9_Witness ==
  \E r \in Runs :
    /\ failed[r] /\ fails[r] = 1 /\ pc[r] = "read"
    /\ Len(EchoLines(r)) = Len(StripWs(Consumed(r))) + 1

\* C10: while no extraction has failed, the characters on the echo lines are
\* the consumed input with all whitespace removed, in input order (less the
\* one just read when the run is at the echo step); a run blocked in a read
\* has echoed every non-whitespace character of the whole input.
C10_EchoIsInputWithoutWhitespace ==
  \A r \in Runs :
    /\ Settled(r) => EchoLines(r) = LinesOf(StripWs(Consumed(r)))
    /\ (pc[r] = "echo" /\ ~failed[r]) =>
         /\ ~IsSpace(a[r])
         /\ Append(EchoLines(r), "a = " \o a[r]) = LinesOf(StripWs(Consumed(r)))
    /\ BlockedInRead(r) => EchoLines(r) = LinesOf(StripWs(input))

\* C10 witness: on an open stream a run has consumed whitespace and at least
\* two non-whitespace characters and is blocked in the next read.
C10_Witness ==
  \E r \in Runs :
    /\ BlockedInRead(r)
    /\ Len(EchoLines(r)) >= 2
    /\ Len(StripWs(Consumed(r))) < pos[r]

\* C2 as stated: each token has one echoed line, `a = ` followed by the
\* token's first character, so the echo lines of a settled run are those of
\* the first characters of the tokens it has consumed.
C2_AsStated ==
  \A r \in Runs :
    Settled(r) => EchoLines(r) = LinesOf(FirstChars(Consumed(r)))

\* C2 amended: the first echoed line produced for a token is `a = ` followed
\* by the token's first character; every further character of the token has
\* an echoed line of its own, `a = ` followed by that character.
C2_FirstLineOfToken ==
  \A r \in Runs :
    Settled(r) =>
      \A t \in TokenStarts(input) \cap 1..pos[r] :
        /\ NonWsUpTo(input, t) <= Len(EchoLines(r))
        /\ EchoLines(r)[NonWsUpTo(input, t)] = "a = " \o input[t]
        /\ \A j \in t..pos[r] :
             (\A m \in t..j : ~IsSpace(input[m])) =>
               EchoLines(r)[NonWsUpTo(input, t) + (j - t)] = "a = " \o input[j]

\* C2 witness: a token of two characters or more has been consumed and
\* echoed, and the run is back at the read.
C2_Witness ==
  \E r \in Runs :
    /\ Settled(r)
    /\ \E j \in 2..pos[r] : ~IsSpace(input[j - 1]) /\ ~IsSpace(input[j])

\* C3 as stated: one echo line per token, so a settled run has written as
\* many echo lines as it has consumed tokens.
C3_AsStated ==
  \A r \in Runs :
    Settled(r) => Len(EchoLines(r)) = Cardinality(TokenStarts(Consumed(r)))

\* C3 amended: each iteration of the echo loop consumes the whitespace in
\* front of one non-whitespace character and that character, not a whole
\* token; an input of n tokens holding m non-whitespace characters yields
\* exactly m echo lines, one per character, and m >= n.
C3_OneLinePerCharacter ==
  \A r \in Runs :
    Settled(r) =>
      /\ Len(EchoLines(r)) = Len(StripWs(Consumed(r)))
      /\ Len(EchoLines(r)) >= Cardinality(TokenStarts(Consumed(r)))
      /\ BlockedInRead(r) => Len(EchoLines(r)) = Len(StripWs(input))

C3_ReadStep ==
  \A r \in Runs :
    (pc[r] = "read" /\ pc'[r] = "echo" /\ ~failed'[r]) =>
      /\ pos'[r] > pos[r]
      /\ pos'[r] <= Len(input)
      /\ ~IsSpace(input[pos'[r]])
      /\ StripWs(SubSeq(input, pos[r] + 1, pos'[r])) = <<input[pos'[r]]>>
      /\ a'[r] = input[pos'[r]]

C3_OneCharacterPerIteration == []C3_OneLinePerCharacter /\ [][C3_ReadStep]_vars

\* C3 witness: a run blocked in a read has written more echo lines than the
\* input has tokens.
C3_Witness ==
  \E r \in Runs :
    /\ BlockedInRead(r)
    /\ Len(EchoLines(r)) > Cardinality(TokenStarts(input))

\* C6 as stated: two executions started with different argc/argv on the same
\* standard input write the same lines: with both under way, what one has
\* written so far is a prefix of what the other has written.
C6_SameOutputForAnyArgs ==
  \A r, q \in Runs :
    args[r] # args[q] => IsPrefix(out[r], out[q]) \/ IsPrefix(out[q], out[r])

====
